---- MODULE Spec2Model ----
(***************************************************************************)
(* Chat API: validator registry sync (app/tasks.py), validator selection,  *)
(* relay and conversation store (api/routers/chat/__init__.py).            *)
(*                                                                         *)
(* The database is PostgreSQL (app/settings.py: postgresql+asyncpg).  Rows *)
(* are kept in sequences; the surrogate id of a row is its index.  Every   *)
(* request handler runs as a coroutine: it is cut into steps at the awaits *)
(* where another coroutine can observe or change committed data.  The      *)
(* relay call (requests.post) blocks the event loop, so it is part of the  *)
(* step that ends with the next commit.                                    *)
(***************************************************************************)
EXTENDS Integers, Sequences, FiniteSets, TLC

VARIABLES validators, chats, messages, variations, clock, req, task, concurrent, users

vars == <<validators, chats, messages, variations, clock, req, task, concurrent, users>>
db == <<validators, chats, messages, variations>>

(* ------------------------------ bounds --------------------------------- *)
MaxChats == 2
MaxMessages == 2
MaxUid == 2
MaxSeedTime == 2
MaxKey == 3
MaxPage == 2
MaxUsers == 2
MaxResets == 2

(* ------------------------------ domains -------------------------------- *)
Users == {"A", "B"}
Slots == {"r1", "r2"}
Uids == 1..MaxUid
Keys == 1..MaxKey
Miners == {"m1"}
ChatNames == {"renamed"}
\* user names and e-mail addresses; a name may be spelled like an address
Names == {"n1", "e1"}
Emails == {"e1", "e2"}
Passwords == {"p1", "p2"}
NULL == 0
None == [none |-> TRUE]

\* uuid.UUID(int=0) rendered as a string
ZeroUUID == "00000000-0000-0000-0000-000000000000"
\* the literal compared with the reply in post_chat / create_message
Apology == "Please try again. Can't receive any responses due to the poor network connection."

\* outcomes of requests.post towards a validator
\*   ok          : status 200, body {text, miner_id}
\*   sentinel200 : status 200, body is the apology string itself
\*   non200      : any other status
\*   transport   : requests.post raises
Upstream == {"ok", "sentinel200", "non200", "transport"}

(* --------------------------- row constructors -------------------------- *)
Validator(uid, name, hotkey, ip, port, is_active, last_picked) ==
    [uid |-> uid, name |-> name, hotkey |-> hotkey, ip |-> ip, port |-> port,
     is_active |-> is_active, last_picked |-> last_picked]

\* created_at (default utcnow at INSERT) is not stored: rows are appended in
\* commit order, so the index of a row orders the rows by created_at.
Chat(user_id, name, validator_id, now) ==
    [user_id |-> user_id, name |-> name, validator_id |-> validator_id,
     is_deleted |-> FALSE, updated_at |-> now]

Message(chat_id, now) ==
    [chat_id |-> chat_id, is_deleted |-> FALSE, updated_at |-> now]

MessageVariation(message_id, validator_id, reply, miner) ==
    [message_id |-> message_id, validator_id |-> validator_id,
     reply |-> reply, miner |-> miner]

(* ------------------------- validator selection ------------------------- *)
\* ORDER BY last_picked ASC under PostgreSQL: NULL sorts after every value.
asc(a, b) == a # NULL /\ (b = NULL \/ a < b)

\* the same query without the is_active condition
pick_validator_any(vs) ==
    {i \in DOMAIN vs : \A j \in DOMAIN vs : ~asc(vs[j].last_picked, vs[i].last_picked)}

\* pick_validator: the rows that can come first in
\*   select(Validator).where(is_active == True).order_by(asc(last_picked))
\* (rows with equal keys come in any order); empty when .first() is None.
pick_validator(vs) ==
    LET active == {i \in DOMAIN vs : vs[i].is_active = "true"}
    IN  {i \in active : \A j \in active : ~asc(vs[j].last_picked, vs[i].last_picked)}

(* ------------------------------ relay ---------------------------------- *)
\* post_msg_request_to_validator: what the call returns for an upstream
\* outcome.  A 200 gives response.json(); any other status falls through to
\* `pass` and returns None.  (A transport failure raises; callers handle it.)
post_msg_request_to_validator(outcome, miner) ==
    CASE outcome = "ok"          -> [text |-> "answer", miner_id |-> miner]
      [] outcome = "sentinel200" -> [str |-> Apology]
      [] OTHER                   -> None

\* if reply == "<apology>": reply = {"text": reply, "miner_id": str(UUID(int=0))}
sentinel(reply) ==
    IF reply = [str |-> Apology] THEN [text |-> Apology, miner_id |-> ZeroUUID] ELSE reply

\* reply['text'] / reply['miner_id'] raise TypeError on None
subscriptable(reply) == reply # None

(* ------------------------------ requests ------------------------------- *)
NoRelay == [sent |-> FALSE]
NoBody == [chat |-> 0, items |-> {}, total |-> 0, skip |-> 0, limit |-> 0, text |-> "",
           access_token |-> None, refresh_token |-> None]
\* what an authentication request carries: form fields or the bearer token
NoArg == [username |-> "", email |-> "", password |-> "", token |-> None]
Idle == [op |-> "none", pc |-> "idle", user |-> "none", chat_id |-> 0, message_id |-> 0,
         name |-> "", skip |-> 0, limit |-> 0, validator |-> 0, msgs |-> {},
         miner |-> "", upstream |-> "none", relay |-> NoRelay, reply |-> None,
         arg |-> NoArg, status |-> 0, body |-> NoBody]

\* a request can start on a slot that serves no request; without concurrency
\* the server takes one request at a time (on the first slot)
Free(s) == /\ req[s].pc \in {"idle", "done"}
           /\ concurrent \/ s = "r1"

Start(op, user) == [Idle EXCEPT !.op = op, !.user = user]
\* the response leaves; the coroutine's locals are dropped.  With one request
\* at a time the last response stays visible until the next request starts;
\* with concurrent requests the slot is simply free again.
Finish(r, status, body) ==
    IF concurrent THEN Idle
    ELSE [Idle EXCEPT !.pc = "done", !.op = r.op, !.user = r.user, !.chat_id = r.chat_id,
                      !.upstream = r.upstream, !.relay = r.relay,
                      !.status = status, !.body = body]

(* =============================== post_chat ============================= *)
\* lines 69-74: pick a validator, insert the chat, commit
post_chat(s, u) ==
    /\ Free(s)
    /\ Len(chats) < MaxChats
    /\ LET r == Start("post_chat", u)
           cands == pick_validator(validators)
       IN  IF cands = {}
           THEN \* validator is None: validator.id raises, rollback, 500
                /\ req' = [req EXCEPT ![s] = Finish(r, 500, NoBody)]
                /\ UNCHANGED <<chats, clock>>
           ELSE \E v \in cands :
                /\ chats' = Append(chats, Chat(u, "Room", v, clock))
                /\ clock' = clock
                /\ req' = [req EXCEPT ![s] = [r EXCEPT !.pc = "relay", !.validator = v,
                                                       !.chat_id = Len(chats) + 1]]
    /\ UNCHANGED <<validators, messages, variations, task, concurrent, users>>

\* lines 76-87: relay the prompt, set last_picked, insert the message, commit
post_chat_relay(s, outcome, m) ==
    /\ req[s].op = "post_chat" /\ req[s].pc = "relay"
    /\ LET r == [req[s] EXCEPT !.upstream = outcome,
                               !.relay = [sent |-> TRUE, validator |-> req[s].validator,
                                          variation |-> FALSE, miner_id |-> ""]]
       IN  IF outcome = "transport"
           THEN /\ req' = [req EXCEPT ![s] = Finish(r, 500, NoBody)]
                /\ UNCHANGED <<validators, messages, clock>>
           ELSE /\ validators' = [validators EXCEPT ![r.validator].last_picked = clock + 1]
                /\ messages' = Append(messages, Message(r.chat_id, clock + 1))
                /\ clock' = clock + 1
                /\ req' = [req EXCEPT ![s] =
                             [r EXCEPT !.pc = "variation", !.message_id = Len(messages) + 1,
                                       !.reply = sentinel(post_msg_request_to_validator(outcome, m))]]
    /\ UNCHANGED <<chats, variations, task, concurrent, users>>

\* a variation attached to the newest message of the table
post_chat_variation_newest(s) ==
    /\ req[s].op = "post_chat" /\ req[s].pc = "variation"
    /\ variations' = Append(variations,
            MessageVariation(Len(messages), req[s].validator, req[s].reply.text,
                             req[s].reply.miner_id))
    /\ req' = [req EXCEPT ![s] = Finish(req[s], 200, NoBody)]
    /\ UNCHANGED <<validators, chats, messages, clock, task, concurrent, users>>

\* lines 89-95: insert the message variation, commit, answer
post_chat_variation(s) ==
    /\ req[s].op = "post_chat" /\ req[s].pc = "variation"
    /\ LET r == req[s]
       IN  IF ~subscriptable(r.reply)
           THEN /\ req' = [req EXCEPT ![s] = Finish(r, 500, NoBody)]
                /\ UNCHANGED <<variations, clock>>
           ELSE /\ variations' = Append(variations,
                       MessageVariation(r.message_id, r.validator, r.reply.text,
                                        r.reply.miner_id))
                /\ clock' = clock
                /\ req' = [req EXCEPT ![s] =
                             Finish(r, 200, [NoBody EXCEPT !.chat = r.chat_id, !.text = r.reply.text])]
    /\ UNCHANGED <<validators, chats, messages, task, concurrent, users>>

(* ============================ create_message =========================== *)
\* a flush that writes the chat back as it was loaded (not deleted)
touch_chat_stale(c, now) == [chats EXCEPT ![c].updated_at = now, ![c].is_deleted = FALSE]

\* line 549: db_chat.updated_at = utcnow(); the flush updates that column only
touch_chat(c, now) == [chats EXCEPT ![c].updated_at = now]

ChatRow(c) == IF c \in DOMAIN chats /\ ~chats[c].is_deleted THEN c ELSE 0

\* a Post message that selects a validator as Start chat does
create_message_repick(s, u, c) ==
    /\ Free(s)
    /\ Len(messages) < MaxMessages
    /\ LET r == [Start("create_message", u) EXCEPT !.chat_id = c]
       IN  IF ChatRow(c) = 0 \/ pick_validator(validators) = {}
           THEN req' = [req EXCEPT ![s] = Finish(r, 500, NoBody)]
           ELSE IF chats[c].user_id # u THEN req' = [req EXCEPT ![s] = Finish(r, 500, NoBody)]
           ELSE \E v \in pick_validator(validators) :
                  req' = [req EXCEPT ![s] = [r EXCEPT !.pc = "relay", !.validator = v]]
    /\ UNCHANGED <<validators, chats, messages, variations, clock, task, concurrent, users>>

\* lines 526-538: load the chat (not deleted), check the owner, load its validator
create_message(s, u, c) ==
    /\ Free(s)
    /\ Len(messages) < MaxMessages
    /\ LET r == [Start("create_message", u) EXCEPT !.chat_id = c]
       IN  req' = [req EXCEPT ![s] =
             IF ChatRow(c) = 0 THEN Finish(r, 500, NoBody)              \* 404 raised inside try
             ELSE IF chats[c].user_id # u THEN Finish(r, 500, NoBody)   \* 403 raised inside try
             ELSE [r EXCEPT !.pc = "relay", !.validator = chats[c].validator_id]]
    /\ UNCHANGED <<validators, chats, messages, variations, clock, task, concurrent, users>>

\* lines 540-551: relay, set last_picked, insert the message, bump the chat, commit
create_message_relay(s, outcome, m) ==
    /\ req[s].op = "create_message" /\ req[s].pc = "relay"
    /\ LET r == [req[s] EXCEPT !.upstream = outcome,
                               !.relay = [sent |-> TRUE, validator |-> req[s].validator,
                                          variation |-> FALSE, miner_id |-> ""]]
       IN  IF outcome = "transport"
           THEN /\ req' = [req EXCEPT ![s] = Finish(r, 500, NoBody)]
                /\ UNCHANGED <<validators, chats, messages, clock>>
           ELSE /\ validators' = [validators EXCEPT ![r.validator].last_picked = clock + 1]
                /\ messages' = Append(messages, Message(r.chat_id, clock + 1))
                /\ chats' = touch_chat(r.chat_id, clock + 1)
                /\ clock' = clock + 1
                /\ req' = [req EXCEPT ![s] =
                             [r EXCEPT !.pc = "variation", !.message_id = Len(messages) + 1,
                                       !.reply = sentinel(post_msg_request_to_validator(outcome, m))]]
    /\ UNCHANGED <<variations, task, concurrent, users>>

\* lines 553-563: insert the message variation, commit, answer
create_message_commit_variation(s) ==
    /\ req[s].op = "create_message" /\ req[s].pc = "variation"
    /\ LET r == req[s]
       IN  IF ~subscriptable(r.reply)
           THEN /\ req' = [req EXCEPT ![s] = Finish(r, 500, NoBody)]
                /\ UNCHANGED <<variations, clock>>
           ELSE /\ variations' = Append(variations,
                       MessageVariation(r.message_id, chats[r.chat_id].validator_id,
                                        r.reply.text, r.reply.miner_id))
                /\ clock' = clock
                /\ req' = [req EXCEPT ![s] =
                             Finish(r, 200, [NoBody EXCEPT !.chat = r.chat_id, !.text = r.reply.text])]
    /\ UNCHANGED <<validators, chats, messages, task, concurrent, users>>

(* ======================= create_message_variation ====================== *)
\* the latest variation of any message
last_variation_any(m) == {i \in DOMAIN variations : \A j \in DOMAIN variations : j <= i}

\* select(MessageVariation).where(message_id == m).order_by(desc(created_at)).limit(1)
last_variation(m) ==
    LET of == {i \in DOMAIN variations : variations[i].message_id = m}
    IN  {i \in of : \A j \in of : j <= i}

\* lines 740-762: load chat, validator, message and the latest variation
create_message_variation(s, u, c, m) ==
    /\ Free(s)
    /\ LET r == [Start("create_message_variation", u) EXCEPT !.chat_id = c, !.message_id = m]
           msg == IF m \in DOMAIN messages /\ messages[m].chat_id = c /\ ~messages[m].is_deleted
                  THEN m ELSE 0
       IN  IF ChatRow(c) = 0 THEN req' = [req EXCEPT ![s] = Finish(r, 500, NoBody)]  \* None.user_id
           ELSE IF chats[c].user_id # u THEN req' = [req EXCEPT ![s] = Finish(r, 500, NoBody)]
           ELSE IF msg = 0 THEN req' = [req EXCEPT ![s] = Finish(r, 500, NoBody)]    \* None.id
           ELSE IF last_variation(m) = {} THEN req' = [req EXCEPT ![s] = Finish(r, 500, NoBody)]
           ELSE \E lv \in last_variation(m) :
                  req' = [req EXCEPT ![s] = [r EXCEPT !.pc = "relay",
                                                      !.validator = chats[c].validator_id,
                                                      !.miner = variations[lv].miner]]
    /\ UNCHANGED <<validators, chats, messages, variations, clock, task, concurrent, users>>

\* line 767 passes user.id, a uuid.UUID, where post_chat and create_message pass
\* str(user.id): requests.post(json=payload) cannot serialise it and raises
\* TypeError before anything is sent (lines 457-471); rollback, 500 (783-787)
create_message_variation_relay(s) ==
    /\ req[s].op = "create_message_variation" /\ req[s].pc = "relay"
    /\ req' = [req EXCEPT ![s] = Finish(req[s], 500, NoBody)]
    /\ UNCHANGED <<validators, chats, messages, variations, clock, task, concurrent, users>>

(* ============================== delete_chat ============================ *)
\* a select without the where clause: every message of every chat
all_messages(c) == DOMAIN messages

\* line 427: select(Message).where(Message.chat_id == chat_id)
chat_messages(c) == {i \in DOMAIN messages : messages[i].chat_id = c}

\* delete_chat without the owner check of lines 421-422
delete_chat_unchecked(s, u, c) ==
    /\ Free(s)
    /\ LET r == [Start("delete_chat", u) EXCEPT !.chat_id = c]
       IN  req' = [req EXCEPT ![s] =
             IF ChatRow(c) = 0 THEN Finish(r, 500, NoBody)
             ELSE [r EXCEPT !.pc = "commit", !.msgs = chat_messages(c)]]
    /\ UNCHANGED <<validators, chats, messages, variations, clock, task, concurrent, users>>

\* lines 417-429: load the chat, check the owner, load all messages of the chat
delete_chat(s, u, c) ==
    /\ Free(s)
    /\ LET r == [Start("delete_chat", u) EXCEPT !.chat_id = c]
       IN  req' = [req EXCEPT ![s] =
             IF ChatRow(c) = 0 THEN Finish(r, 500, NoBody)              \* None.user_id
             ELSE IF chats[c].user_id # u THEN Finish(r, 403, NoBody)
             ELSE [r EXCEPT !.pc = "commit", !.msgs = chat_messages(c)]]
    /\ UNCHANGED <<validators, chats, messages, variations, clock, task, concurrent, users>>

\* lines 431-436: flag the loaded messages and the chat, commit
delete_chat_commit(s) ==
    /\ req[s].op = "delete_chat" /\ req[s].pc = "commit"
    /\ messages' = [i \in DOMAIN messages |->
                      IF i \in req[s].msgs THEN [messages[i] EXCEPT !.is_deleted = TRUE]
                      ELSE messages[i]]
    /\ chats' = [chats EXCEPT ![req[s].chat_id].is_deleted = TRUE]
    /\ req' = [req EXCEPT ![s] = Finish(req[s], 200, NoBody)]
    /\ UNCHANGED <<validators, variations, clock, task, concurrent, users>>

(* ============================ delete_message =========================== *)
\* lines 678-692: load the chat, check the owner, load the message
delete_message(s, u, c, m) ==
    /\ Free(s)
    /\ LET r == [Start("delete_message", u) EXCEPT !.chat_id = c, !.message_id = m]
       IN  req' = [req EXCEPT ![s] =
             IF ChatRow(c) = 0 THEN Finish(r, 500, NoBody)
             ELSE IF chats[c].user_id # u THEN Finish(r, 500, NoBody)
             ELSE IF ~(m \in DOMAIN messages /\ messages[m].chat_id = c) THEN Finish(r, 500, NoBody)
             ELSE [r EXCEPT !.pc = "commit"]]
    /\ UNCHANGED <<validators, chats, messages, variations, clock, task, concurrent, users>>

\* a delete that takes the message's variations with it
delete_message_commit_cascade(s) ==
    /\ req[s].op = "delete_message" /\ req[s].pc = "commit"
    /\ messages' = [messages EXCEPT ![req[s].message_id].is_deleted = TRUE]
    /\ variations' = SelectSeq(variations, LAMBDA v : v.message_id # req[s].message_id)
    /\ req' = [req EXCEPT ![s] = Finish(req[s], 200, NoBody)]
    /\ UNCHANGED <<validators, chats, clock, task, concurrent, users>>

\* lines 693-695
delete_message_commit(s) ==
    /\ req[s].op = "delete_message" /\ req[s].pc = "commit"
    /\ messages' = [messages EXCEPT ![req[s].message_id].is_deleted = TRUE]
    /\ req' = [req EXCEPT ![s] = Finish(req[s], 200, NoBody)]
    /\ UNCHANGED <<validators, chats, variations, clock, task, concurrent, users>>

(* ================================ put_chat ============================= *)
\* select(Chat).where(id, not deleted).join(Message) with contains_eager:
\* the chat with all its messages, or no row when it has no message
chat_with_messages(c) ==
    IF ChatRow(c) = 0 THEN {}
    ELSE {i \in DOMAIN messages : messages[i].chat_id = c}

\* lines 253-261: load the chat, check the owner.  Both HTTPExceptions are
\* caught, and the handler (JSONResponse(detail=...)) raises TypeError: 500.
put_chat(s, u, c, name) ==
    /\ Free(s)
    /\ LET r == [Start("put_chat", u) EXCEPT !.chat_id = c, !.name = name]
       IN  req' = [req EXCEPT ![s] =
             IF ChatRow(c) = 0 THEN Finish(r, 500, NoBody)
             ELSE IF chats[c].user_id # u THEN Finish(r, 500, NoBody)
             ELSE [r EXCEPT !.pc = "commit"]]
    /\ UNCHANGED <<validators, chats, messages, variations, clock, task, concurrent, users>>

\* a rename that also assigns the validator picked now
put_chat_commit_repick(s) ==
    /\ req[s].op = "put_chat" /\ req[s].pc = "commit"
    /\ \E v \in pick_validator(validators) \cup {chats[req[s].chat_id].validator_id} :
          chats' = [chats EXCEPT ![req[s].chat_id].name = req[s].name,
                                 ![req[s].chat_id].validator_id = v]
    /\ req' = [req EXCEPT ![s] = Finish(req[s], 200, NoBody)]
    /\ UNCHANGED <<validators, messages, variations, clock, task, concurrent, users>>

\* lines 263-273: rename, commit, reload with messages
put_chat_commit(s) ==
    /\ req[s].op = "put_chat" /\ req[s].pc = "commit"
    /\ chats' = [chats EXCEPT ![req[s].chat_id].name = req[s].name]
    /\ LET found == chat_with_messages(req[s].chat_id)
       IN  req' = [req EXCEPT ![s] =
             IF found = {} THEN Finish(req[s], 500, NoBody)   \* None fails the response model
             ELSE Finish(req[s], 200, [NoBody EXCEPT !.chat = req[s].chat_id, !.items = found])]
    /\ UNCHANGED <<validators, messages, variations, clock, task, concurrent, users>>

(* ================================ get_chat ============================= *)
\* lines 163-183: every HTTPException raised in the try block is caught by
\* `except Exception` and replaced by a 500
get_chat(s, u, c) ==
    /\ Free(s)
    /\ LET r == [Start("get_chat", u) EXCEPT !.chat_id = c]
           found == chat_with_messages(c)
       IN  req' = [req EXCEPT ![s] =
             IF ChatRow(c) = 0 THEN Finish(r, 500, NoBody)
             ELSE IF chats[c].user_id # u THEN Finish(r, 500, NoBody)
             ELSE IF found = {} THEN Finish(r, 500, NoBody)
             ELSE Finish(r, 200, [NoBody EXCEPT !.chat = c, !.items = found])]
    /\ UNCHANGED <<validators, chats, messages, variations, clock, task, concurrent, users>>

(* ============================ get_chat_messages ======================== *)
\* select(Message).where(chat_id == c, is_deleted == False)
\*     .order_by(created_at.desc()).offset(skip).limit(limit)
\* rows are numbered in commit order, so the newest has the largest id
newest_page(c, skip, limit) ==
    LET rows == {m \in DOMAIN messages : messages[m].chat_id = c /\ ~messages[m].is_deleted}
        before(m) == Cardinality({k \in rows : k > m})
    IN  {m \in rows : before(m) >= skip /\ before(m) < skip + limit}

\* lines 626-643: the chat itself is never loaded, so neither its owner nor
\* its is_deleted is looked at; an empty page is a 404 raised inside the try
get_chat_messages(s, u, c, skip, limit) ==
    /\ Free(s)
    /\ LET r == [Start("get_chat_messages", u) EXCEPT !.chat_id = c, !.skip = skip, !.limit = limit]
           found == newest_page(c, skip, limit)
       IN  req' = [req EXCEPT ![s] =
             IF skip < 0 \/ limit < 0 THEN Finish(r, 500, NoBody)
             ELSE IF found = {} THEN Finish(r, 500, NoBody)
             ELSE Finish(r, 200, [NoBody EXCEPT !.chat = c, !.items = found])]
    /\ UNCHANGED <<validators, chats, messages, variations, clock, task, concurrent, users>>

(* ============================= get_user_chats ========================== *)
\* the select without the user_id condition
user_chats_any(u) == {c \in DOMAIN chats : ~chats[c].is_deleted}

\* select(Chat).where(user_id == u, is_deleted == False)
user_chats(u) == {c \in DOMAIN chats : chats[c].user_id = u /\ ~chats[c].is_deleted}

\* .offset(skip).limit(limit) without ORDER BY: rows come in any order
page(rows, skip, limit) ==
    LET n == Cardinality(rows) - skip
        k == IF n < 0 THEN 0 ELSE IF n < limit THEN n ELSE limit
    IN  {p \in SUBSET rows : Cardinality(p) = k}

\* lines 351-384; PostgreSQL rejects a negative OFFSET or LIMIT
get_user_chats(s, u, skip, limit) ==
    /\ Free(s)
    /\ LET r == [Start("get_user_chats", u) EXCEPT !.skip = skip, !.limit = limit]
       IN  IF skip < 0 \/ limit < 0
           THEN req' = [req EXCEPT ![s] = Finish(r, 500, NoBody)]
           ELSE \E items \in page(user_chats(u), skip, limit) :
                  req' = [req EXCEPT ![s] =
                    Finish(r, 200, [NoBody EXCEPT !.items = items, !.skip = skip, !.limit = limit,
                                                  !.total = Cardinality(user_chats(u))])]
    /\ UNCHANGED <<validators, chats, messages, variations, clock, task, concurrent, users>>

(* ============================ load_data_task =========================== *)
\* the records the directory can return (validator dicts built at lines 30-36)
record(u, k) == [uid |-> u, name |-> k, hotkey |-> k, ip |-> k, port |-> k]

Lists(pool) == {<<>>} \cup {<<a>> : a \in pool} \cup {<<a, b>> : a \in pool, b \in pool}

\* a directory where every validator changes its data at will
DirectoryLists == Lists({record(u, k) : u \in Uids, k \in Keys})
\* a directory where validators come and go with fixed data
StableLists == {<<record(1, 1)>>, [u \in Uids |-> record(u, u)]}

\* response_uids = {v["uid"] for v in validators}
response_uids(data) == {data[i].uid : i \in DOMAIN data}

\* update(Validator).where(uid.notin_(response_uids)).values(is_active=False)
deactivate(vs, uids) ==
    [i \in DOMAIN vs |-> IF vs[i].uid \notin uids THEN [vs[i] EXCEPT !.is_active = "false"]
                         ELSE vs[i]]

\* an upsert that writes the whole row anew on conflict
upsert_replace(vs, v) ==
    LET same == {i \in DOMAIN vs : vs[i].uid = v.uid}
    IN  IF same = {}
        THEN [ok |-> TRUE,
              rows |-> Append(vs, Validator(v.uid, v.name, v.hotkey, v.ip, v.port, "null", NULL))]
        ELSE [ok |-> TRUE,
              rows |-> [i \in DOMAIN vs |->
                          IF i \in same
                          THEN Validator(v.uid, v.name, v.hotkey, v.ip, v.port, "true", NULL)
                          ELSE vs[i]]]

\* insert(Validator).values(**validator).on_conflict_do_update(index_elements=[uid],
\*     set_={**validator, "is_active": True})
\* The inserted row gets no is_active (the column has no default): NULL.
\* hotkey is unique: a second row with the same hotkey is an IntegrityError.
upsert(vs, v) ==
    LET same == {i \in DOMAIN vs : vs[i].uid = v.uid}
        clash == \E j \in DOMAIN vs : vs[j].uid # v.uid /\ vs[j].hotkey = v.hotkey
    IN  IF clash THEN [ok |-> FALSE, rows |-> vs]
        ELSE IF same = {}
        THEN [ok |-> TRUE,
              rows |-> Append(vs, Validator(v.uid, v.name, v.hotkey, v.ip, v.port, "null", NULL))]
        ELSE [ok |-> TRUE,
              rows |-> [i \in DOMAIN vs |->
                          IF i \in same
                          THEN [vs[i] EXCEPT !.name = v.name, !.hotkey = v.hotkey, !.ip = v.ip,
                                             !.port = v.port, !.is_active = "true"]
                          ELSE vs[i]]]

\* for validator in validators: await db.execute(stmt)
RECURSIVE upsert_all(_, _)
upsert_all(vs, data) ==
    IF data = <<>> THEN [ok |-> TRUE, rows |-> vs]
    ELSE LET first == upsert(vs, Head(data))
         IN  IF first.ok THEN upsert_all(first.rows, Tail(data)) ELSE first

\* the task is about to fetch: at the first iteration or after the sleep
\* ("run"), or back at the top of the loop right after a failed iteration
\* ("retry": the except branch of lines 60-61 does not sleep)
fetching == task \in {"run", "retry"}

\* statements that were each committed on their own: what they wrote stays
commit_each(before, res) == res.rows

\* line 55: the one commit of the session block is reached only when no
\* statement raised; otherwise the session is left without commit
commit(before, res) == IF res.ok THEN res.rows ELSE before

\* one iteration of the loop, lines 17-61, for a directory that answers `data`
load_data_task(data) ==
    /\ fetching
    /\ LET res == upsert_all(deactivate(validators, response_uids(data)), data)
       IN  /\ validators' = commit(validators, res)
           /\ task' = IF res.ok THEN "sleep" ELSE "retry"
    /\ UNCHANGED <<chats, messages, variations, clock, req, concurrent, users>>

\* requests.get or response.json() or item[...] raises: lines 25-37, 60-61
load_data_task_error ==
    /\ fetching
    /\ task' = "retry"
    /\ UNCHANGED <<validators, chats, messages, variations, clock, req, concurrent, users>>

\* await asyncio.sleep(60) returns, line 59
load_data_task_wake ==
    /\ task = "sleep"
    /\ task' = "run"
    /\ UNCHANGED <<validators, chats, messages, variations, clock, req, concurrent, users>>

(* ============================ authentication =========================== *)
\* orm/models/user.py: name and email are unique; is_verified defaults to
\* False; password, refresh_token, reset_token and source default to NULL
\* (None for a hash or a token, "null" for the source, NULL for a reset token)
User(name, email, password, source) ==
    [name |-> name, email |-> email, password |-> password, source |-> source,
     refresh_token |-> None, reset_token |-> NULL, is_verified |-> FALSE]

\* the response of an authentication route: what was asked, the status, the body
Respond(r, status, body) ==
    [Idle EXCEPT !.pc = "done", !.op = r.op, !.user = r.user, !.arg = r.arg,
                 !.status = status, !.body = body]

\* a salted hash: it is not the password, and only the password verifies
get_password_hash(password) == [bcrypt |-> password]
verify_password(plain_password, hashed_password) ==
    hashed_password = [bcrypt |-> plain_password]

\* a JWT signed with settings.secret_key: its subject and its lifetime
\* (30 minutes, 7 days, or the 30 days of the verification link)
create_access_token(sub, expires) == [sub |-> sub, expires |-> expires]
\* a string that jwt.decode rejects (bad signature, expired, not a JWT)
InvalidToken == [invalid |-> TRUE]
\* the tokens the server has handed out: both tokens of every federated
\* sign-up (login_for_access_token hands out none, see is_verified)
issued ==
    UNION {{create_access_token(users[i].name, "30m"), create_access_token(users[i].name, "7d")} :
              i \in {j \in DOMAIN users : users[j].source = "google"}}

\* an insert without the unique indexes on users.name and users.email
insert_any(name, email) == TRUE

\* the unique indexes of users.name and users.email accept the new row
insert_ok(name, email) ==
    \A i \in DOMAIN users : users[i].name # name /\ users[i].email # email

\* lines 117-127: hash the password, look for a user with the name or the email
register_user(s, username, email, password) ==
    /\ Free(s)
    /\ LET r == [Start("register_user", username) EXCEPT
                    !.arg = [NoArg EXCEPT !.username = username, !.email = email,
                                          !.password = password]]
           duplicated == \E i \in DOMAIN users :
                             users[i].name = username \/ users[i].email = email
       IN  req' = [req EXCEPT ![s] = IF duplicated THEN Respond(r, 409, NoBody)
                                     ELSE [r EXCEPT !.pc = "insert"]]
    /\ UNCHANGED <<validators, chats, messages, variations, clock, task, concurrent, users>>

\* lines 130-164: insert and commit.  A row that breaks a unique index is an
\* IntegrityError: rollback, and the handler returns None: a null body with
\* 200, or 500 where the return annotation is validated.  After the commit send_verification_email (line
\* 151) is a name the module never defines: NameError, 500, the user stays.
register_user_commit(s) ==
    /\ req[s].op = "register_user" /\ req[s].pc = "insert"
    /\ LET a == req[s].arg
       IN  IF insert_ok(a.username, a.email)
           THEN /\ Len(users) < MaxUsers
                /\ users' = Append(users, User(a.username, a.email,
                                               get_password_hash(a.password), "null"))
                /\ req' = [req EXCEPT ![s] = Respond(req[s], 500, NoBody)]
           ELSE /\ users' = users
                /\ \E status \in {200, 500} :
                      req' = [req EXCEPT ![s] = Respond(req[s], status, NoBody)]
    /\ UNCHANGED <<validators, chats, messages, variations, clock, task, concurrent>>

\* line 215 (and 229): user.is_verified
is_verified_any(u) == TRUE

is_verified(u) == u.is_verified

\* lines 204-251
login_for_access_token(s, username, password) ==
    /\ Free(s)
    /\ LET r == [Start("login_for_access_token", username) EXCEPT
                    !.arg = [NoArg EXCEPT !.username = username, !.password = password]]
           found == {i \in DOMAIN users : users[i].name = username}
       IN  IF found = {}
           THEN /\ req' = [req EXCEPT ![s] = Respond(r, 401, NoBody)]
                /\ users' = users
           ELSE \E i \in found :
                  IF ~is_verified(users[i])
                  THEN /\ req' = [req EXCEPT ![s] = Respond(r, 401, NoBody)]
                       /\ users' = users
                  ELSE IF ~verify_password(password, users[i].password)
                  THEN /\ req' = [req EXCEPT ![s] = Respond(r, 401, NoBody)]
                       /\ users' = users
                  ELSE /\ users' = [users EXCEPT ![i].refresh_token =
                                       create_access_token(users[i].name, "7d")]
                       /\ req' = [req EXCEPT ![s] = Respond(r, 200,
                             [NoBody EXCEPT
                                 !.access_token = create_access_token(users[i].name, "30m"),
                                 !.refresh_token = create_access_token(users[i].name, "7d")])]
    /\ UNCHANGED <<validators, chats, messages, variations, clock, task, concurrent>>

\* lines 289-302: the user row selected at lines 295-297 is never looked at
refresh_access_token(s, refresh_token) ==
    /\ Free(s)
    /\ LET r == [Start("refresh_access_token", "none") EXCEPT
                    !.arg = [NoArg EXCEPT !.token = refresh_token]]
       IN  req' = [req EXCEPT ![s] =
             IF refresh_token = InvalidToken THEN Respond(r, 401, NoBody)
             ELSE Respond(r, 200, [NoBody EXCEPT !.access_token =
                                     create_access_token(refresh_token.sub, "30m")])]
    /\ UNCHANGED <<validators, chats, messages, variations, clock, task, concurrent, users>>

\* lines 375-385: the identity provider vouches for `email`
auth_google(s, email) ==
    /\ Free(s)
    /\ LET r == [Start("auth_google", email) EXCEPT !.arg = [NoArg EXCEPT !.email = email]]
       IN  req' = [req EXCEPT ![s] =
             IF \E i \in DOMAIN users : users[i].email = email
             THEN Respond(r, 200, NoBody)            \* "Email already registered"
             ELSE [r EXCEPT !.pc = "insert"]]
    /\ UNCHANGED <<validators, chats, messages, variations, clock, task, concurrent, users>>

\* lines 394-397: insert with name = email, commit; any exception is a 400
auth_google_commit(s) ==
    /\ req[s].op = "auth_google" /\ req[s].pc = "insert"
    /\ LET email == req[s].arg.email
       IN  IF insert_ok(email, email)
           THEN /\ Len(users) < MaxUsers
                /\ users' = Append(users, User(email, email, None, "google"))
                /\ req' = [req EXCEPT ![s] = [req[s] EXCEPT !.pc = "tokens"]]
           ELSE /\ users' = users
                /\ req' = [req EXCEPT ![s] = Respond(req[s], 400, NoBody)]
    /\ UNCHANGED <<validators, chats, messages, variations, clock, task, concurrent>>

\* lines 400-408: store the refresh token, commit, hand out both tokens
auth_google_tokens(s) ==
    /\ req[s].op = "auth_google" /\ req[s].pc = "tokens"
    /\ LET email == req[s].arg.email
       IN  /\ users' = [i \in DOMAIN users |->
                          IF users[i].name = email
                          THEN [users[i] EXCEPT !.refresh_token = create_access_token(email, "7d")]
                          ELSE users[i]]
           /\ req' = [req EXCEPT ![s] = Respond(req[s], 200,
                 [NoBody EXCEPT !.access_token = create_access_token(email, "30m"),
                                !.refresh_token = create_access_token(email, "7d")])]
    /\ UNCHANGED <<validators, chats, messages, variations, clock, task, concurrent>>

\* uuid.uuid4() returns a token never handed out before: reset tokens are
\* numbered in the order they are made
fresh_reset_token ==
    LET made == {NULL} \cup {users[i].reset_token : i \in DOMAIN users}
    IN  1 + (CHOOSE m \in made : \A k \in made : k <= m)

\* lines 483-502: user.first()[0] raises for an unknown address (404)
forgot_password(s, email) ==
    /\ Free(s)
    /\ LET r == [Start("forgot_password", email) EXCEPT !.arg = [NoArg EXCEPT !.email = email]]
           found == {i \in DOMAIN users : users[i].email = email}
       IN  IF found = {}
           THEN /\ req' = [req EXCEPT ![s] = Respond(r, 404, NoBody)]
                /\ users' = users
           ELSE \E i \in found :
                  /\ fresh_reset_token <= MaxResets
                  /\ users' = [users EXCEPT ![i].reset_token = fresh_reset_token]
                  /\ req' = [req EXCEPT ![s] = Respond(r, 200, NoBody)]
    /\ UNCHANGED <<validators, chats, messages, variations, clock, task, concurrent>>

\* lines 540-555: the row keeps its reset_token
reset_password(s, token, new_password) ==
    /\ Free(s)
    /\ LET r == [Start("reset_password", "none") EXCEPT
                    !.arg = [NoArg EXCEPT !.token = token, !.password = new_password]]
           found == {i \in DOMAIN users : users[i].reset_token = token}
       IN  IF found = {}
           THEN /\ req' = [req EXCEPT ![s] = Respond(r, 400, NoBody)]
                /\ users' = users
           ELSE \E i \in found :
                  /\ users' = [users EXCEPT ![i].password = get_password_hash(new_password)]
                  /\ req' = [req EXCEPT ![s] = Respond(r, 200, NoBody)]
    /\ UNCHANGED <<validators, chats, messages, variations, clock, task, concurrent>>

(* ================================ Init ================================= *)
Init ==
    /\ validators = <<>>
    /\ chats = <<>>
    /\ messages = <<>>
    /\ variations = <<>>
    /\ clock = 0
    /\ req = [s \in Slots |-> Idle]
    /\ task = "run"
    /\ concurrent = FALSE
    /\ users = <<>>

ChatIds == 1..MaxChats
MessageIds == 1..MaxMessages
PageArgs == (0 - 1)..MaxPage

(* ======================= the relay workflow (Spec) ===================== *)
\* one user starts chats, posts messages and variations and renames chats,
\* one request at a time, against every upstream outcome; the directory
\* lists the first validator or all of them
Next ==
    \/ \E data \in StableLists : load_data_task(data)
    \/ load_data_task_error
    \/ load_data_task_wake
    \/ \E s \in Slots : post_chat(s, "A")
    \/ \E s \in Slots, o \in Upstream, m \in Miners : post_chat_relay(s, o, m)
    \/ \E s \in Slots : post_chat_variation(s)
    \/ \E s \in Slots, c \in ChatIds : create_message(s, "A", c)
    \/ \E s \in Slots, o \in Upstream, m \in Miners : create_message_relay(s, o, m)
    \/ \E s \in Slots : create_message_commit_variation(s)
    \/ \E s \in Slots, c \in ChatIds, m \in MessageIds : create_message_variation(s, "A", c, m)
    \/ \E s \in Slots : create_message_variation_relay(s)
    \/ \E s \in Slots, c \in ChatIds, n \in ChatNames : put_chat(s, "A", c, n)
    \/ \E s \in Slots : put_chat_commit(s)

Spec == Init /\ [][Next]_vars

(* ================= validator assignment (SpecAssign) =================== *)
\* the same workflow with an upstream that answers 200 with a reply or an
\* error status, while the directory lists the first validator or all of them
NextAssign ==
    \/ \E data \in StableLists : load_data_task(data)
    \/ load_data_task_wake
    \/ \E s \in Slots : post_chat(s, "A")
    \/ \E s \in Slots, o \in {"ok", "non200"}, m \in Miners : post_chat_relay(s, o, m)
    \/ \E s \in Slots : post_chat_variation(s)
    \/ \E s \in Slots, c \in ChatIds : create_message(s, "A", c)
    \/ \E s \in Slots, o \in {"ok", "non200"}, m \in Miners : create_message_relay(s, o, m)
    \/ \E s \in Slots : create_message_commit_variation(s)
    \/ \E s \in Slots, c \in ChatIds, m \in MessageIds : create_message_variation(s, "A", c, m)
    \/ \E s \in Slots : create_message_variation_relay(s)
    \/ \E s \in Slots, c \in ChatIds, n \in ChatNames : put_chat(s, "A", c, n)
    \/ \E s \in Slots : put_chat_commit(s)

SpecAssign == Init /\ [][NextAssign]_vars

(* =================== ownership and soft delete (SpecOwner) ============= *)
\* user A starts chats and both users call every writing handler on them, one
\* request at a time; the upstream answers 200 and the directory lists one
\* validator
NextOwner ==
    \/ load_data_task(<<record(1, 1)>>)
    \/ load_data_task_wake
    \/ \E s \in Slots : post_chat(s, "A")
    \/ \E s \in Slots, m \in Miners : post_chat_relay(s, "ok", m)
    \/ \E s \in Slots : post_chat_variation(s)
    \/ \E s \in Slots, u \in Users, c \in ChatIds : create_message(s, u, c)
    \/ \E s \in Slots, m \in Miners : create_message_relay(s, "ok", m)
    \/ \E s \in Slots : create_message_commit_variation(s)
    \/ \E s \in Slots, u \in Users, c \in ChatIds, m \in MessageIds : create_message_variation(s, u, c, m)
    \/ \E s \in Slots : create_message_variation_relay(s)
    \/ \E s \in Slots, u \in Users, c \in ChatIds : delete_chat(s, u, c)
    \/ \E s \in Slots : delete_chat_commit(s)
    \/ \E s \in Slots, u \in Users, c \in ChatIds, m \in MessageIds : delete_message(s, u, c, m)
    \/ \E s \in Slots : delete_message_commit(s)
    \/ \E s \in Slots, u \in Users, c \in ChatIds, n \in ChatNames : put_chat(s, u, c, n)
    \/ \E s \in Slots : put_chat_commit(s)

SpecOwner == Init /\ [][NextOwner]_vars

(* ========================= reading chats (SpecRead) ==================== *)
NextRead ==
    \/ load_data_task(<<record(1, 1)>>)
    \/ load_data_task_wake
    \/ \E s \in Slots, u \in Users : post_chat(s, u)
    \/ \E s \in Slots, o \in {"ok", "transport"}, m \in Miners : post_chat_relay(s, o, m)
    \/ \E s \in Slots : post_chat_variation(s)
    \/ \E s \in Slots, u \in Users, c \in ChatIds : delete_chat(s, u, c)
    \/ \E s \in Slots : delete_chat_commit(s)
    \/ \E s \in Slots, u \in Users, c \in ChatIds : get_chat(s, u, c)
    \/ \E s \in Slots, u \in Users, sk \in PageArgs, li \in PageArgs : get_user_chats(s, u, sk, li)

SpecRead == Init /\ [][NextRead]_vars

(* ===================== concurrent requests (SpecConc) ================== *)
\* two requests of one user in flight at once, interleaved at every commit:
\* the handlers that write chats and messages.  The registry holds one active
\* validator (the state after two syncs of a one-validator directory) and
\* the sync task sleeps.
InitConc ==
    /\ validators = <<Validator(1, 1, 1, 1, 1, "true", NULL)>>
    /\ chats = <<>>
    /\ messages = <<>>
    /\ variations = <<>>
    /\ clock = 0
    /\ req = [s \in Slots |-> Idle]
    /\ task = "sleep"
    /\ concurrent = TRUE
    /\ users = <<>>

NextConc ==
    \/ \E s \in Slots : post_chat(s, "A")
    \/ \E s \in Slots, m \in Miners : post_chat_relay(s, "ok", m)
    \/ \E s \in Slots : post_chat_variation(s)
    \/ \E s \in Slots, c \in ChatIds : create_message(s, "A", c)
    \/ \E s \in Slots, m \in Miners : create_message_relay(s, "ok", m)
    \/ \E s \in Slots : create_message_commit_variation(s)
    \/ \E s \in Slots, c \in ChatIds : delete_chat(s, "A", c)
    \/ \E s \in Slots : delete_chat_commit(s)
    \/ \E s \in Slots, c \in ChatIds, m \in MessageIds : delete_message(s, "A", c, m)
    \/ \E s \in Slots : delete_message_commit(s)

SpecConc == InitConc /\ [][NextConc]_vars

(* ===================== validator selection on its own ================== *)
\* Validator tables the program can hold: a row that was inserted and never
\* listed again has is_active NULL and was never picked; two rows never carry
\* the same non-null last_picked (it is now() of different moments).
SeededValidators ==
    LET Row(i) == {Validator(i, i, i, i, i, a, t) :
                      a \in {"true", "false", "null"}, t \in 0..MaxSeedTime}
        Ok(vs) == /\ \A i \in DOMAIN vs : vs[i].is_active = "null" => vs[i].last_picked = NULL
                  /\ \A i, j \in DOMAIN vs :
                        i # j /\ vs[i].last_picked # NULL => vs[i].last_picked # vs[j].last_picked
    IN  {vs \in UNION {[1..n -> UNION {Row(i) : i \in Uids}] : n \in Uids} :
            (\A i \in DOMAIN vs : vs[i].uid = i) /\ Ok(vs)}

InitPick ==
    /\ validators \in SeededValidators
    /\ chats = <<>>
    /\ messages = <<>>
    /\ variations = <<>>
    /\ clock = MaxSeedTime
    /\ req = [s \in Slots |-> Idle]
    /\ task = "sleep"
    /\ concurrent = FALSE
    /\ users = <<>>

\* chats are started one after another and every upstream call succeeds;
\* the registry does not change
NextPick ==
    \/ \E u \in Users : post_chat("r1", u)
    \/ \E m \in Miners : post_chat_relay("r1", "ok", m)
    \/ post_chat_variation("r1")

SpecPick == InitPick /\ [][NextPick]_vars

(* ====================== reading messages (SpecMessages) ================ *)
\* user A starts chats, posts and deletes messages; both users read
NextMessages ==
    \/ load_data_task(<<record(1, 1)>>)
    \/ load_data_task_wake
    \/ \E s \in Slots : post_chat(s, "A")
    \/ \E s \in Slots, m \in Miners : post_chat_relay(s, "ok", m)
    \/ \E s \in Slots : post_chat_variation(s)
    \/ \E s \in Slots, c \in ChatIds : create_message(s, "A", c)
    \/ \E s \in Slots, m \in Miners : create_message_relay(s, "ok", m)
    \/ \E s \in Slots : create_message_commit_variation(s)
    \/ \E s \in Slots, c \in ChatIds, m \in MessageIds : delete_message(s, "A", c, m)
    \/ \E s \in Slots : delete_message_commit(s)
    \/ \E s \in Slots, c \in ChatIds, n \in ChatNames : put_chat(s, "A", c, n)
    \/ \E s \in Slots : put_chat_commit(s)
    \/ \E s \in Slots, u \in Users, c \in ChatIds : get_chat(s, u, c)
    \/ \E s \in Slots, u \in Users, c \in ChatIds, sk \in PageArgs, li \in PageArgs :
          get_chat_messages(s, u, c, sk, li)

SpecMessages == Init /\ [][NextMessages]_vars

(* =================== concurrent selection (SpecRace) =================== *)
\* two Start chat requests in flight at once over a registry of validators
\* picked at different moments, with an upstream that answers, while the
\* directory lists the first validator only
InitRace ==
    /\ validators \in SeededValidators
    /\ chats = <<>>
    /\ messages = <<>>
    /\ variations = <<>>
    /\ clock = MaxSeedTime
    /\ req = [s \in Slots |-> Idle]
    /\ task = "sleep"
    /\ concurrent = TRUE
    /\ users = <<>>

NextRace ==
    \/ load_data_task(<<record(1, 1)>>)
    \/ load_data_task_wake
    \/ \E s \in Slots : post_chat(s, "A")
    \/ \E s \in Slots, m \in Miners : post_chat_relay(s, "ok", m)
    \/ \E s \in Slots : post_chat_variation(s)

SpecRace == InitRace /\ [][NextRace]_vars

(* ======================= authentication (SpecAuth) ===================== *)
\* what a client can present as a token: junk, or a token it was handed
Tokens == {InvalidToken} \cup issued
ResetTokens == 1..MaxResets

NextAuth ==
    \/ \E n \in Names, e \in Emails, p \in Passwords : register_user("r1", n, e, p)
    \/ register_user_commit("r1")
    \/ \E n \in Names, p \in Passwords : login_for_access_token("r1", n, p)
    \/ \E t \in Tokens : refresh_access_token("r1", t)
    \/ \E e \in Emails : auth_google("r1", e)
    \/ auth_google_commit("r1")
    \/ auth_google_tokens("r1")
    \/ \E e \in Emails : forgot_password("r1", e)
    \/ \E k \in ResetTokens, p \in Passwords : reset_password("r1", k, p)

SpecAuth == Init /\ [][NextAuth]_vars

(* ================== concurrent sign-ups (SpecRegister) ================= *)
NextRegister ==
    \/ \E s \in Slots, n \in Names, e \in Emails : register_user(s, n, e, "p1")
    \/ \E s \in Slots : register_user_commit(s)
    \/ \E s \in Slots, e \in Emails : auth_google(s, e)
    \/ \E s \in Slots : auth_google_commit(s)
    \/ \E s \in Slots : auth_google_tokens(s)

SpecRegister == InitConc /\ [][NextRegister]_vars

(* ========================== registry sync on its own =================== *)
NextSync ==
    \/ \E data \in DirectoryLists : load_data_task(data)
    \/ load_data_task_error
    \/ load_data_task_wake

SpecSync == Init /\ [][NextSync]_vars

(* ================================ claims =============================== *)
ActiveIds == {i \in DOMAIN validators : validators[i].is_active = "true"}

\* C1: an upstream failure (the validator answers non-200, or the transport
\* fails) during Start chat, Post message or Post message variation is not an
\* error to the caller: the request completes with 200 and a MessageVariation
\* with the all-zero miner and the apology text is stored.
C1_UpstreamFailureDowngraded ==
    \A s \in Slots :
        req[s].pc = "done" /\ req[s].upstream \in {"non200", "transport"} =>
            /\ req[s].status = 200
            /\ \E v \in DOMAIN variations :
                  variations[v].miner = ZeroUUID /\ variations[v].reply = Apology

\* C2: pick_validator returns an active validator; one whose last_picked is
\* null if any active validator has a null last_picked, otherwise the active
\* validator with the smallest last_picked.  (post_chat is at "relay" right
\* after picking, with the validators as they were when it picked.)
C2_PickNullsFirst ==
    \A s \in Slots :
        req[s].op = "post_chat" /\ req[s].pc = "relay" =>
            LET v == req[s].validator
            IN  /\ v \in ActiveIds
                /\ (\E j \in ActiveIds : validators[j].last_picked = NULL)
                       => validators[v].last_picked = NULL
                /\ (\A j \in ActiveIds : validators[j].last_picked # NULL)
                       => \A j \in ActiveIds :
                             validators[v].last_picked <= validators[j].last_picked

\* C3: with N active validators and no registry change, any N consecutive
\* chat creations are assigned N distinct validators.
C3_RoundRobin ==
    LET N == Cardinality(ActiveIds)
    IN  \A i \in DOMAIN chats :
            i + N - 1 <= Len(chats) =>
                Cardinality({chats[j].validator_id : j \in i..(i + N - 1)}) = N

\* C4: Rename chat, Delete chat, Post message, Delete message and Post message
\* variation are owner-only: a request of a user who does not own the chat
\* changes no stored row, ends at once and sends nothing to a validator.
OwnerOnly == {"put_chat", "delete_chat", "create_message", "delete_message",
              "create_message_variation"}

C4_OwnerOnly ==
    [][\A s \in Slots :
          (/\ req[s].pc \in {"idle", "done"}
           /\ req'[s] # req[s]
           /\ req'[s].op \in OwnerOnly
           /\ req'[s].chat_id \in DOMAIN chats
           /\ chats[req'[s].chat_id].user_id # req'[s].user)
          => /\ db' = db
             /\ req'[s].pc = "done"
             /\ req'[s].status # 200
             /\ ~req'[s].relay.sent]_vars

\* a user other than the owner asked to delete a live chat that has a message
C4_NonOwnerRefused ==
    \E s \in Slots :
        /\ req[s].pc = "done" /\ req[s].op = "delete_chat" /\ req[s].status = 403
        /\ req[s].chat_id \in DOMAIN chats
        /\ chats[req[s].chat_id].user_id # req[s].user
        /\ ~chats[req[s].chat_id].is_deleted
        /\ \E m \in DOMAIN messages :
              messages[m].chat_id = req[s].chat_id /\ ~messages[m].is_deleted

\* C5: Get chat by a user who does not own the (existing, not deleted) chat
\* ends with 403, not with not-found or a server error, and returns no chat.
C5_GetChatForbidden ==
    \A s \in Slots :
        (/\ req[s].pc = "done" /\ req[s].op = "get_chat"
         /\ req[s].chat_id \in DOMAIN chats
         /\ ~chats[req[s].chat_id].is_deleted
         /\ chats[req[s].chat_id].user_id # req[s].user)
        => req[s].status = 403 /\ req[s].body = NoBody

C8_SoftDeleteMonotonic ==
    [][/\ \A c \in DOMAIN chats :
             chats[c].is_deleted => c \in DOMAIN chats' /\ chats'[c].is_deleted
       /\ \A m \in DOMAIN messages :
             messages[m].is_deleted => m \in DOMAIN messages' /\ messages'[m].is_deleted]_vars

\* a request that had loaded the chat before it was deleted wrote to it after
C8_WrittenAfterDelete ==
    \E c \in DOMAIN chats :
        /\ chats[c].is_deleted
        /\ \E m \in DOMAIN messages : messages[m].chat_id = c /\ ~messages[m].is_deleted

\* C9: a chat's validator never changes after the chat is created, and every
\* MessageVariation of a message of the chat records that validator.
C9_VariationsOfChatValidator ==
    \A v \in DOMAIN variations :
        variations[v].validator_id =
            chats[messages[variations[v].message_id].chat_id].validator_id

C9_ValidatorFixed ==
    [][/\ \A c \in DOMAIN chats :
             c \in DOMAIN chats' /\ chats'[c].validator_id = chats[c].validator_id
       /\ C9_VariationsOfChatValidator']_vars

\* a renamed chat with two variations whose validator is no longer active
C9_RenamedWithVariations ==
    \E c \in DOMAIN chats :
        /\ chats[c].name \in ChatNames
        /\ validators[chats[c].validator_id].is_active = "false"
        /\ Cardinality({v \in DOMAIN variations :
                           messages[variations[v].message_id].chat_id = c}) >= 2

\* C11: a failed Registry Sync iteration (fetch failure, malformed payload,
\* or a failing deactivation or upsert) leaves the stored validators exactly
\* as they were: nothing of the iteration is visible without its commit.
C11_FailedSyncChangesNothing ==
    [][task' = "retry" => validators' = validators]_vars

\* an iteration failed on a table that holds an active validator
C11_FailedOnStoredValidators ==
    /\ task = "retry"
    /\ \E i \in DOMAIN validators : validators[i].is_active = "true"

\* C12: after every iteration, failed or successful, the task waits for the
\* interval before it fetches again.
C12_SleepsAfterEveryIteration ==
    [][fetching /\ task' # task => task' = "sleep"]_vars

\* C13: when no validator is active Start chat ends with the generic server
\* error, creates no Chat, Message or MessageVariation and sends no request
\* to a validator.
C13_NoActiveValidator ==
    [][\A s \in Slots :
          (/\ req[s].pc \in {"idle", "done"}
           /\ req'[s] # req[s]
           /\ req'[s].op = "post_chat"
           /\ ActiveIds = {})
          => /\ db' = db
             /\ req'[s].pc = "done"
             /\ req'[s].status = 500
             /\ ~req'[s].relay.sent]_vars

\* Start chat was refused while validators are stored but none is active
C13_RefusedWithoutActive ==
    \E s \in Slots :
        /\ req[s].pc = "done" /\ req[s].op = "post_chat" /\ req[s].status = 500
        /\ ~req[s].relay.sent
        /\ validators # <<>> /\ ActiveIds = {}
        /\ chats = <<>>

\* C14: Post message variation by the owner for a live message that has no
\* variation yet ends with an error, sends nothing to the validator, creates
\* no MessageVariation and leaves last_picked and every updated_at unchanged.
C14_NoPriorVariation ==
    [][\A s \in Slots, c \in DOMAIN chats, m \in DOMAIN messages :
          (/\ ChatRow(c) = c
           /\ messages[m].chat_id = c /\ ~messages[m].is_deleted
           /\ \A v \in DOMAIN variations : variations[v].message_id # m
           /\ create_message_variation(s, chats[c].user_id, c, m))
          => /\ db' = db
             /\ req'[s].pc = "done"
             /\ req'[s].status = 500
             /\ ~req'[s].relay.sent]_vars

\* the owner asked for a variation in a live chat whose only message has no
\* variation, while another message has one
C14_RefusedVariation ==
    \E s \in Slots :
        /\ req[s].pc = "done" /\ req[s].op = "create_message_variation"
        /\ req[s].status = 500 /\ ~req[s].relay.sent
        /\ ChatRow(req[s].chat_id) = req[s].chat_id
        /\ chats[req[s].chat_id].user_id = req[s].user
        /\ \E m \in DOMAIN messages : messages[m].chat_id = req[s].chat_id
        /\ \A m \in DOMAIN messages :
              messages[m].chat_id = req[s].chat_id =>
                  /\ ~messages[m].is_deleted
                  /\ \A v \in DOMAIN variations : variations[v].message_id # m
        /\ variations # <<>>

\* C15: a registration whose username or email is that of a registered user
\* is answered 409 and goes no further (no user is created); and always, also
\* with concurrent registrations and federated sign-ups, no two users share
\* a name and no two users share an email.
C15_UniqueUsers ==
    /\ [](\A i, j \in DOMAIN users :
            i # j => users[i].name # users[j].name /\ users[i].email # users[j].email)
    /\ [][\A s \in Slots :
            (/\ req[s].pc \in {"idle", "done"} /\ req'[s] # req[s]
             /\ req'[s].op = "register_user"
             /\ \E i \in DOMAIN users : \/ users[i].name = req'[s].arg.username
                                        \/ users[i].email = req'[s].arg.email)
            => (req'[s].pc = "done" /\ req'[s].status = 409 /\ users' = users)]_vars

\* a registration refused with 409 beside a federated sign-up that lost the
\* race for its address to a registration
C15_RefusedAndRaced ==
    /\ req["r1"].pc = "done" /\ req["r1"].op = "register_user" /\ req["r1"].status = 409
    /\ req["r2"].pc = "done" /\ req["r2"].op = "auth_google" /\ req["r2"].status = 400
    /\ \E i \in DOMAIN users : users[i].source = "null" /\ users[i].email = req["r2"].arg.email

C17_RegisteredUserLogsIn ==
    [][\A s \in Slots :
          (/\ req[s].pc \in {"idle", "done"} /\ req'[s] # req[s]
           /\ req'[s].op = "login_for_access_token"
           /\ \E i \in DOMAIN users :
                 /\ users[i].source = "null"
                 /\ users[i].name = req'[s].arg.username
                 /\ users[i].password = get_password_hash(req'[s].arg.password))
          => (/\ req'[s].pc = "done" /\ req'[s].status = 200
              /\ req'[s].body.access_token # None)]_vars

\* C18: the refresh route hands out a new access token exactly when the
\* presented token is the refresh token stored for the user it names; any
\* other token is answered 401 without an access token.
C18_RefreshOnlyStoredToken ==
    [][\A s \in Slots :
          (/\ req[s].pc \in {"idle", "done"} /\ req'[s] # req[s]
           /\ req'[s].op = "refresh_access_token")
          => LET token == req'[s].arg.token
                 stored == /\ token # InvalidToken
                           /\ \E i \in DOMAIN users : /\ users[i].name = token.sub
                                                      /\ users[i].refresh_token = token
             IN  IF stored
                 THEN req'[s].status = 200 /\ req'[s].body.access_token # None
                 ELSE req'[s].status = 401 /\ req'[s].body.access_token = None]_vars

\* C19: a successful password reset stores the hash of the new password and
\* clears the reset token: afterwards no user holds the token that was used.
C19_ResetTokenCleared ==
    [][\A s \in Slots :
          (/\ req[s].pc \in {"idle", "done"} /\ req'[s] # req[s]
           /\ req'[s].op = "reset_password" /\ req'[s].status = 200)
          => (/\ \E i \in DOMAIN users :
                    /\ users[i].reset_token = req'[s].arg.token
                    /\ users'[i].password = get_password_hash(req'[s].arg.password)
              /\ \A i \in DOMAIN users' : users'[i].reset_token # req'[s].arg.token)]_vars

\* C20: a stored variation is never changed and never removed, by no
\* operation: deleting its message or its chat, asking for further variations,
\* a registry sync.  The variations of every message only grow.
C20_VariationsImmutable ==
    [][\A v \in DOMAIN variations :
          v \in DOMAIN variations' /\ variations'[v] = variations[v]]_vars

\* a variation whose message and chat were both deleted, kept beside a later one
C20_KeptAfterDelete ==
    /\ Len(variations) >= 2
    /\ LET m == variations[1].message_id
       IN  /\ messages[m].is_deleted
           /\ chats[messages[m].chat_id].is_deleted
    /\ task = "sleep"

\* C21: a registry sync iteration removes no stored validator and changes
\* neither the surrogate id (the uid stays with its row) nor the last_picked
\* of one; every validator referenced by a chat or a message variation is
\* stored, after any number of syncs.
C21_ValidatorsKept ==
    /\ [][task' # task =>
            \A i \in DOMAIN validators :
                /\ i \in DOMAIN validators'
                /\ validators'[i].uid = validators[i].uid
                /\ validators'[i].last_picked = validators[i].last_picked]_vars
    /\ [](/\ \A c \in DOMAIN chats : chats[c].validator_id \in DOMAIN validators
          /\ \A v \in DOMAIN variations : variations[v].validator_id \in DOMAIN validators)

\* a validator that was picked and later dropped by the directory: it is
\* inactive, still stored with its last_picked, and a variation refers to it
C21_DeactivatedStillReferenced ==
    \E i \in DOMAIN validators :
        /\ validators[i].is_active = "false"
        /\ validators[i].last_picked # NULL
        /\ \E v \in DOMAIN variations : variations[v].validator_id = i

\* C22: every Start chat that picked a validator and dispatched the prompt
\* to it commits a new last_picked for that validator, whether the upstream
\* answered 200, answered another status, or the transport failed.
C22_LastPickedOnEveryDispatch ==
    [][\A s \in Slots :
          (/\ req[s].op = "post_chat" /\ req[s].pc = "relay"
           /\ req'[s] # req[s])
          => LET v == req[s].validator
             IN  /\ validators'[v].last_picked # NULL
                 /\ validators'[v].last_picked # validators[v].last_picked]_vars

\* C23: two concurrent Start chat requests can pick the same validator
\* before either sets last_picked, and the race is benign: the validator a
\* request picks is active when picked, and every request that gets its
\* answer ends with a chat, a first message and a first variation of its own,
\* all assigned to the validator it picked.
C23_BenignRace ==
    /\ [][\A s \in Slots :
            (req[s].pc = "idle" /\ req'[s].op = "post_chat" /\ req'[s].pc = "relay")
            => validators[req'[s].validator].is_active = "true"]_vars
    /\ [][\A s \in Slots :
            (req[s].op = "post_chat" /\ req[s].pc = "variation" /\ req'[s] # req[s])
            => LET r == req[s]
                   n == Len(variations) + 1
               IN  /\ Len(variations') = n
                   /\ variations'[n].message_id = r.message_id
                   /\ variations'[n].validator_id = r.validator
                   /\ messages[r.message_id].chat_id = r.chat_id
                   /\ chats[r.chat_id].validator_id = r.validator
                   /\ chats[r.chat_id].user_id = r.user
                   /\ \A v \in DOMAIN variations : variations[v].message_id # r.message_id
                   /\ \A m \in DOMAIN messages :
                         m # r.message_id => messages[m].chat_id # r.chat_id]_vars

\* both chats were created before any last_picked was written, on the same
\* validator, while another active validator that had been picked before
\* stayed unpicked; both requests have stored their variation
C23_BothPickedTheSame ==
    /\ Len(chats) = 2 /\ Len(variations) = 2
    /\ chats[1].updated_at = MaxSeedTime /\ chats[2].updated_at = MaxSeedTime
    /\ chats[1].validator_id = chats[2].validator_id
    /\ variations[1].message_id # variations[2].message_id
    /\ \E w \in DOMAIN validators :
          /\ w # chats[1].validator_id
          /\ validators[w].is_active = "true"
          /\ validators[w].last_picked # NULL

\* C24: a message variation is stored only with its message and a message
\* only with its chat; and a chat that Start chat committed stays valid and
\* visible also when the request failed afterwards: Get chat by its owner
\* returns every chat of theirs that is not deleted.
C24_ChatVisibleAfterFailure ==
    /\ [](/\ \A v \in DOMAIN variations : variations[v].message_id \in DOMAIN messages
          /\ \A m \in DOMAIN messages : messages[m].chat_id \in DOMAIN chats)
    /\ [][\A s \in Slots :
            (/\ req[s].pc \in {"idle", "done"} /\ req'[s] # req[s]
             /\ req'[s].op = "get_chat"
             /\ ChatRow(req'[s].chat_id) # 0
             /\ chats[req'[s].chat_id].user_id = req'[s].user)
            => (req'[s].status = 200 /\ req'[s].body.chat = req'[s].chat_id)]_vars

\* C25: soft-deleted is terminal for a chat: nothing is added to a deleted
\* chat in any interleaving, so every message of a soft-deleted chat is
\* soft-deleted too.
C25_DeletedChatHasNoLiveMessage ==
    \A m \in DOMAIN messages :
        chats[messages[m].chat_id].is_deleted => messages[m].is_deleted

\* C26: Post message sends the prompt to the validator assigned to the chat
\* when it was created, whatever the registry says now: also when that
\* validator has been marked inactive and another one is active.
C26_RelayToAssigned ==
    [][\A s \in Slots :
          (req[s].op = "create_message" /\ req[s].pc = "relay" /\ req'[s] # req[s])
          => /\ req'[s].relay.sent
             /\ req'[s].relay.validator = chats[req[s].chat_id].validator_id
             /\ chats'[req[s].chat_id].validator_id = chats[req[s].chat_id].validator_id]_vars

\* a Post message was answered by a validator that is inactive by now, while
\* an active one was there to pick
C26_SentToInactive ==
    \E s \in Slots :
        /\ req[s].op = "create_message" /\ req[s].pc = "done" /\ req[s].status = 200
        /\ req[s].relay.sent
        /\ validators[req[s].relay.validator].is_active = "false"
        /\ ActiveIds # {}

\* C27: the request that Post message variation sends to the validator
\* carries the miner of the message's most recent variation, and the new
\* variation is attached to that message.
C27_VariationContinuesMiner ==
    [][\A s \in Slots :
          (req[s].op = "create_message_variation" /\ req[s].pc = "relay" /\ req'[s] # req[s])
          => LET m == req[s].message_id
                 n == Len(variations) + 1
             IN  /\ req'[s].relay.sent
                 /\ req'[s].relay.variation
                 /\ \E lv \in last_variation(m) : req'[s].relay.miner_id = variations[lv].miner
                 /\ Len(variations') = n
                 /\ variations'[n].message_id = m]_vars

\* C28: a soft-deleted message is never returned by a read: neither List
\* messages nor Get chat nor the chat returned by Rename chat includes a
\* message that Delete message has flagged.
C28_DeletedMessageNotRead ==
    \A s \in Slots :
        (/\ req[s].pc = "done" /\ req[s].status = 200
         /\ req[s].op \in {"get_chat", "get_chat_messages", "put_chat"})
        => \A m \in req[s].body.items : ~messages[m].is_deleted

\* C29: the messages of a chat are readable by its owner only: List messages
\* asked by a user for a chat of another user returns none of its messages.
C29_MessagesOwnerOnly ==
    \A s \in Slots :
        (/\ req[s].pc = "done" /\ req[s].op = "get_chat_messages"
         /\ req[s].chat_id \in DOMAIN chats
         /\ chats[req[s].chat_id].user_id # req[s].user)
        => (req[s].status # 200 /\ req[s].body.items = {})

\* C30: whenever the directory returns a well-formed list (distinct uids,
\* distinct hotkeys) the iteration commits, whatever is stored: also when a
\* hotkey that is stored under one uid is now listed under another.
WellFormedLists ==
    {d \in DirectoryLists :
        \A i, j \in DOMAIN d : i # j => d[i].uid # d[j].uid /\ d[i].hotkey # d[j].hotkey}

C30_WellFormedListCommits ==
    \A data \in WellFormedLists :
        upsert_all(deactivate(validators, response_uids(data)), data).ok

\* C10: after a successful iteration a stored validator is active iff its uid
\* is in the fetched list: the others have is_active = false, and every
\* fetched record has exactly one stored row with its uid, carrying the
\* fetched name, hotkey, ip and port and is_active = true.
C10_SyncPost(vs, data) ==
    /\ \A i \in DOMAIN vs :
          /\ vs[i].is_active = "true" <=> vs[i].uid \in response_uids(data)
          /\ vs[i].uid \notin response_uids(data) => vs[i].is_active = "false"
    /\ \A k \in DOMAIN data :
          /\ Cardinality({i \in DOMAIN vs : vs[i].uid = data[k].uid}) = 1
          /\ \A i \in DOMAIN vs :
                vs[i].uid = data[k].uid =>
                    /\ vs[i].name = data[k].name /\ vs[i].hotkey = data[k].hotkey
                    /\ vs[i].ip = data[k].ip /\ vs[i].port = data[k].port
                    /\ vs[i].is_active = "true"

C10_SyncActiveIffListed ==
    [][\A data \in DirectoryLists :
          load_data_task(data) /\ task' = "sleep" => C10_SyncPost(validators', data)]_vars
====
